---- MODULE Spec2Model ----
(***************************************************************************)
(* A model of src/newsnow_fetcher.py (class NewsNowFetcher): the retrying  *)
(* fetch clients, the response standardizer, the dedup/rank merger         *)
(* (_process_news_items), the two batch loops, crawl_multiple_platforms    *)
(* and the snapshot writer (save_to_file).                                 *)
(*                                                                         *)
(* Python values are tagged records [t, v]: t names the Python type and v  *)
(* holds the value.  A str is a sequence of one-character strings, so that *)
(* strip() is computed and not assumed.  A dict is the sequence of its     *)
(* <<key, value>> entries in insertion order (Python dicts keep it).       *)
(***************************************************************************)
EXTENDS Integers, Sequences, FiniteSets, TLC

VARIABLES
    \* ---- the dedup/rank merger run on one fetch (SpecMerge) ----
    items,          \* data_json["items"] of the fetch being merged
    index,          \* number of items the loop of line 461 has consumed
    title_map,      \* results[platform_id]
    m_pc,           \* "loop" | "returned" | "raised"
    computed,       \* history: publish_time computed for each consumed item
    \* ---- one call of crawl_multiple_platforms (Spec) ----
    platforms,          \* the argument
    request_interval,   \* the argument request_interval, in milliseconds
    pc,                 \* where the call stands
    custom_platforms,   \* lines 663-672
    newsnow_platforms,
    batch,              \* the batch function running: "custom" | "newsnow" | "none"
    i,                  \* its loop index (0-based, as enumerate gives it)
    results,            \* its locals (lines 539-541, 596-598)
    id_to_name,
    failed_ids,
    retries,            \* the running fetch: lines 98 and 383
    data_json,          \* what the fetch returned
    custom_ret,         \* lines 679-687
    newsnow_ret,        \* lines 675-692
    outcome,            \* the tuple of line 708
    wait_time,          \* the sleep of lines 145-147 and 427-430 just made (0: none)
    actual_interval,    \* the sleep of lines 574-576 and 628-630 just made (0: none)
    attempts,           \* history: HTTP requests made by the running fetch
    last_response,      \* history: what its last request was answered with
    fate,               \* history: how each platform fetched so far ended
    \* ---- one call of _standardize_custom_api_response (SpecStd) ----
    std_data,           \* the argument data: the raw response
    std_config,         \* the argument platform_config
    std_pc,             \* "start" | "loop" | "returned"
    std_items,          \* the local items of lines 218-247
    std_index,          \* number of raw items the loop of line 273 has consumed
    standardized_items, \* standardized["items"]
    std_ret,            \* the value returned
    fallback_consulted, \* history: the condition of line 238 held
    \* ---- one call of save_to_file (SpecSave) ----
    snap_results,       \* the argument results
    snap_id_to_name,    \* the argument id_to_name
    snap_failed_ids,    \* the argument failed_ids
    snap_pc,            \* "header" | "sort" | "titles" | "failures" | "closed"
    snap_p,             \* number of platform sections written
    sorted_titles,      \* the local of lines 848-871
    snap_t,             \* number of title lines of the section written
    snap_lines          \* the lines written to the file

mergeVars == <<items, index, title_map, m_pc, computed>>

crawlVars == <<platforms, request_interval, actual_interval, pc, custom_platforms, newsnow_platforms, batch, i,
               results, id_to_name, failed_ids, retries, data_json,
               custom_ret, newsnow_ret, outcome, wait_time, attempts,
               last_response, fate>>

stdVars == <<std_data, std_config, std_pc, std_items, std_index,
             standardized_items, std_ret, fallback_consulted>>

saveVars == <<snap_results, snap_id_to_name, snap_failed_ids, snap_pc, snap_p,
              sorted_titles, snap_t, snap_lines>>

vars == <<mergeVars, crawlVars, stdVars, saveVars>>

----------------------------------------------------------------------------
(* Python values *)

None == [t |-> "null", v |-> <<>>]
Str(s) == [t |-> "str", v |-> s]
Num(n) == [t |-> "num", v |-> n]
Float(n) == [t |-> "float", v |-> n]
Bool(b) == [t |-> "bool", v |-> b]
List(xs) == [t |-> "list", v |-> xs]
Tuple(xs) == [t |-> "tuple", v |-> xs]
Dict(d) == [t |-> "dict", v |-> d]

\* bool(x) of a Python value (every date-time text of the model is non-empty)
Truthy(x) ==
    CASE x.t = "null" -> FALSE
      [] x.t \in {"num", "float"} -> x.v # 0
      [] x.t = "datestr" -> TRUE
      [] x.t = "bool" -> x.v
      [] OTHER -> x.v # <<>>

\* ---- dict: entries <<key, value>> in insertion order ----
HasKey(d, k) == \E j \in 1..Len(d) : d[j][1] = k

\* d.get(k, default)
Get(d, k, default) ==
    IF HasKey(d, k) THEN d[CHOOSE j \in 1..Len(d) : d[j][1] = k][2] ELSE default

\* d[k] = val: an existing key keeps its position, a new key goes last
Put(d, k, val) ==
    IF HasKey(d, k)
    THEN [j \in 1..Len(d) |-> IF d[j][1] = k THEN <<k, val>> ELSE d[j]]
    ELSE Append(d, <<k, val>>)

\* {**a, **b}
RECURSIVE Update(_, _)
Update(a, b) ==
    IF b = <<>> THEN a ELSE Update(Put(a, b[1][1], b[1][2]), Tail(b))

Keys(d) == {d[j][1] : j \in 1..Len(d)}

\* ---- str ----
IsSpace(c) == c = " "

RECURSIVE LStrip(_)
LStrip(s) ==
    IF s = <<>> THEN s
    ELSE IF IsSpace(Head(s)) THEN LStrip(Tail(s)) ELSE s

RECURSIVE RStrip(_)
RStrip(s) ==
    IF s = <<>> THEN s
    ELSE IF IsSpace(s[Len(s)]) THEN RStrip(SubSeq(s, 1, Len(s) - 1)) ELSE s

\* s.strip()
Strip(s) == RStrip(LStrip(s))

DigitChars == <<"0", "1", "2", "3", "4", "5", "6", "7", "8", "9">>

RECURSIVE Digits(_)
Digits(n) ==
    IF n < 10 THEN <<DigitChars[n + 1]>>
    ELSE Digits(n \div 10) \o <<DigitChars[(n % 10) + 1]>>

\* str(x).  Exact for str, int, float with an integral value, None and the
\* empty containers; the repr of a non-empty container is longer but, like
\* these, never blank.
PyStr(x) ==
    CASE x.t = "str" -> x.v
      [] x.t = "num" -> IF x.v < 0 THEN <<"-">> \o Digits(-x.v) ELSE Digits(x.v)
      [] x.t = "float" ->
            (IF x.v < 0 THEN <<"-">> \o Digits(-x.v) ELSE Digits(x.v)) \o <<".", "0">>
      [] x.t = "null" -> <<"N", "o", "n", "e">>
      [] x.t = "list" -> <<"[", "]">>
      [] OTHER -> <<"{", "}">>

----------------------------------------------------------------------------
(* _process_news_items: the dedup/rank merger *)

\* Numbers and instants are counted in units of 1000 (a timestamp of
\* 1 700 000 000 s is 1700000): the 1e10 of line 485 is then 10^7.
MsThreshold == 10000000

\* A date-time text is held as [t |-> "datestr", v |-> <<k, at>>]:
\* k in 1..3 is the pattern of line 491 the text matches (0: none of them) and
\* `at` the civil time it spells, on the scale of the instants above.
DateStr(k, at) == [t |-> "datestr", v |-> <<k, at>>]

DateFormats == 1..3

\* lines 476-503: the publish time of one item; `now` is the clock reading
\* of line 503
publish_time_of(pub_date, now) ==
    IF ~Truthy(pub_date) THEN now
    ELSE IF pub_date.t \in {"num", "float"}
         THEN IF pub_date.v > MsThreshold THEN pub_date.v \div 1000 ELSE pub_date.v
    ELSE IF pub_date.t = "datestr"
         THEN IF \E fmt \in DateFormats : pub_date.v[1] = fmt
              THEN pub_date.v[2] ELSE now
    ELSE now

\* line 466: the titles the loop skips
SkippedTitle(title) ==
    title.t = "null" \/ title.t = "float" \/ Strip(PyStr(title)) = <<>>

\* lines 514-519: the record of a first occurrence
NewRecord(rank, url, mobile_url, publish_time) ==
    [ranks |-> <<rank>>, url |-> url, mobileUrl |-> mobile_url,
     publishTime |-> publish_time]

\* mutant: the later time wins
MergeRepeat_KeepLatest(rec, rank, url, mobile_url, publish_time) ==
    [rec EXCEPT !.ranks = Append(@, rank),
                !.publishTime = IF publish_time > @ THEN publish_time ELSE @]

\* mutant: a repeat occurrence overwrites the links
MergeRepeat_OverwriteUrls(rec, rank, url, mobile_url, publish_time) ==
    [rec EXCEPT !.ranks = Append(@, rank),
                !.url = url,
                !.mobileUrl = mobile_url,
                !.publishTime = IF publish_time < @ THEN publish_time ELSE @]

\* mutant: a repeat occurrence puts its rank first
MergeRepeat_Prepend(rec, rank, url, mobile_url, publish_time) ==
    [rec EXCEPT !.ranks = <<rank>> \o @,
                !.publishTime = IF publish_time < @ THEN publish_time ELSE @]

\* lines 507-511: a repeat occurrence
MergeRepeat(rec, rank, url, mobile_url, publish_time) ==
    [rec EXCEPT !.ranks = Append(@, rank),
                !.publishTime = IF publish_time < @ THEN publish_time ELSE @]

\* mutant: enumerate(items) numbers the items from 0
RankOf_ZeroBased(position) == position - 1

\* line 461: enumerate(items, 1) numbers the items from 1
RankOf(position) == position

\* mutant: the title is stored as it came
TitleKey_Raw(title) == PyStr(title)

\* line 470
TitleKey(title) == Strip(PyStr(title))

\* lines 461-519: one iteration of the loop, on the item at 1-based `position`.
\* [raised, map]: raised when item.get fails (the item is no dict).
process_item(tmap, item, position, now) ==
    IF item.t # "dict" THEN [raised |-> TRUE, map |-> tmap]
    ELSE LET title == Get(item.v, "title", None) IN
         IF SkippedTitle(title) THEN [raised |-> FALSE, map |-> tmap]
         ELSE LET key == TitleKey(title)
                  url == Get(item.v, "url", Str(<<>>))
                  mobile_url == Get(item.v, "mobileUrl", Str(<<>>))
                  publish_time == publish_time_of(Get(item.v, "pubDate", None), now)
              IN [raised |-> FALSE,
                  map |-> IF HasKey(tmap, key)
                          THEN Put(tmap, key,
                                   MergeRepeat(Get(tmap, key, None), RankOf(position),
                                               url, mobile_url, publish_time))
                          ELSE Put(tmap, key,
                                   NewRecord(RankOf(position), url, mobile_url,
                                             publish_time))]

\* lines 461-519 from `position` to the end of the list
RECURSIVE process_loop(_, _, _, _)
process_loop(tmap, its, position, now) ==
    IF position > Len(its) THEN [raised |-> FALSE, map |-> tmap]
    ELSE LET r == process_item(tmap, its[position], position, now) IN
         IF r.raised THEN r ELSE process_loop(r.map, its, position + 1, now)

\* lines 453-522, whole: results[platform_id] = {} first, then the loop over
\* data_json.get("items", []).  [raised, results]: what an exception leaves
\* behind is kept, as the except clause only re-raises.  None and numbers
\* cannot be enumerated; a non-empty str or dict yields str elements, which
\* have no get.
process_news_items(data, platform_id, results_in, now) ==
    LET its == Get(data.v, "items", List(<<>>))
        r == IF its.t = "list" THEN process_loop(<<>>, its.v, 1, now)
             ELSE IF its.t \in {"str", "dict"} /\ its.v = <<>>
                  THEN [raised |-> FALSE, map |-> <<>>]
             ELSE [raised |-> TRUE, map |-> <<>>]
    IN [raised |-> r.raised, results |-> Put(results_in, platform_id, r.map)]

----------------------------------------------------------------------------
(* _standardize_custom_api_response *)

\* A str is a sequence of lexemes: ".", "/" and " " stand alone, any other
\* lexeme is a run of other characters (a key, a host, a placeholder).

\* s.split(sep): the runs between the separators, "" for an empty run (a run
\* is one lexeme)
RECURSIVE SplitFrom(_, _, _)
SplitFrom(s, sep, run) ==
    IF s = <<>> THEN <<run>>
    ELSE IF Head(s) = sep THEN <<run>> \o SplitFrom(Tail(s), sep, "")
         ELSE SplitFrom(Tail(s), sep, Head(s))

Split(s, sep) == SplitFrom(s, sep, "")

\* mutant: trailing slashes are kept
RStripSlash_Keep(s) == s

\* s.rstrip("/") and s.lstrip("/")
RECURSIVE RStripSlash(_)
RStripSlash(s) ==
    IF s # <<>> /\ s[Len(s)] = "/" THEN RStripSlash(SubSeq(s, 1, Len(s) - 1)) ELSE s

RECURSIVE LStripSlash(_)
LStripSlash(s) ==
    IF s # <<>> /\ Head(s) = "/" THEN LStripSlash(Tail(s)) ELSE s

\* s.replace(placeholder, by), the placeholder being one lexeme
RECURSIVE Replace(_, _, _)
Replace(s, placeholder, by) ==
    IF s = <<>> THEN <<>>
    ELSE (IF Head(s) = placeholder THEN by ELSE <<Head(s)>>)
         \o Replace(Tail(s), placeholder, by)

\* mutant: a lookup that cannot go on returns the value it has reached
RECURSIVE Lookup_Partial(_, _)
Lookup_Partial(current, parts) ==
    IF parts = <<>> THEN current
    ELSE IF current.t = "dict" /\ HasKey(current.v, Head(parts))
         THEN Lookup_Partial(Get(current.v, Head(parts), None), Tail(parts))
         ELSE current

\* lines 225-230 and 265-270: successive key lookups; None when a part is
\* missing or the value reached is no dict
RECURSIVE Lookup(_, _)
Lookup(current, parts) ==
    IF parts = <<>> THEN current
    ELSE IF current.t = "dict" /\ HasKey(current.v, Head(parts))
         THEN Lookup(Get(current.v, Head(parts), None), Tail(parts))
         ELSE None

\* lines 259-270
get_nested_value(obj, path) ==
    IF ~Truthy(path) THEN None ELSE Lookup(obj, Split(path.v, "."))

EmptyDict == Dict(<<>>)

DefaultFallbackFields == List(<<"data", "list", "items", "result">>)

DefaultTemplate == Str(<<"{base_url}", "/", "{itemId}">>)

\* mutant: the last fallback field of data that holds a list
RECURSIVE FirstListField_Last(_, _)
FirstListField_Last(data, fields) ==
    IF fields = <<>> THEN <<>>
    ELSE IF HasKey(data.v, fields[Len(fields)])
            /\ Get(data.v, fields[Len(fields)], None).t = "list"
         THEN Get(data.v, fields[Len(fields)], None).v
         ELSE FirstListField_Last(data, SubSeq(fields, 1, Len(fields) - 1))

\* lines 244-247: the first fallback field of data that holds a list
RECURSIVE FirstListField(_, _)
FirstListField(data, fields) ==
    IF fields = <<>> THEN <<>>
    ELSE IF HasKey(data.v, Head(fields)) /\ Get(data.v, Head(fields), None).t = "list"
         THEN Get(data.v, Head(fields), None).v
         ELSE FirstListField(data, Tail(fields))

\* lines 221-235: what data_path leads to (None when it is not followed), and
\* the items it gives
resolve_data_path(data, data_path) ==
    IF Truthy(data_path) /\ data.t = "dict"
    THEN Lookup(data, Split(data_path.v, "."))
    ELSE None

items_by_path(data, data_path) ==
    LET current_data == resolve_data_path(data, data_path) IN
    IF current_data.t = "list" THEN current_data.v ELSE <<>>

\* line 238: the fallback is tried
fallback_tried(found, fallback_enabled) ==
    Len(found) = 0 /\ Truthy(fallback_enabled)

\* lines 240-247: the items the fallback gives
items_by_fallback(data, fallback_fields) ==
    IF data.t = "list" THEN data.v
    ELSE IF data.t = "dict" THEN FirstListField(data, fallback_fields.v)
    ELSE <<>>

\* lines 217-247: the list of raw items
SourceItems(data, data_path, fallback_enabled, fallback_fields) ==
    LET by_path == items_by_path(data, data_path) IN
    IF fallback_tried(by_path, fallback_enabled)
    THEN items_by_fallback(data, fallback_fields)
    ELSE by_path

\* lines 277-303: the standardized item of one raw dict item
StandardizedItem(item, title_field, time_field, item_id_field, base_url, url_template) ==
    LET title_value == IF Truthy(title_field)
                       THEN get_nested_value(item, title_field) ELSE None
        time_value == IF Truthy(time_field)
                      THEN get_nested_value(item, time_field) ELSE None
        item_id == IF Truthy(item_id_field)
                   THEN get_nested_value(item, item_id_field) ELSE None
        with_title == IF Truthy(title_value)
                      THEN << <<"title", Str(Strip(PyStr(title_value)))>> >> ELSE <<>>
        with_time == IF Truthy(time_value)
                     THEN Append(with_title, <<"pubDate", time_value>>) ELSE with_title
    IN IF Truthy(item_id)
       THEN IF Truthy(base_url)
            THEN Append(with_time,
                        <<"url", Str(Replace(Replace(url_template.v, "{base_url}",
                                                     RStripSlash(base_url.v)),
                                             "{itemId}", LStripSlash(PyStr(item_id))))>>)
            ELSE Append(with_time, <<"url", Str(PyStr(item_id))>>)
       ELSE with_time

\* lines 273-307: the loop over the raw items
RECURSIVE StandardizeItems(_, _, _, _, _, _)
StandardizeItems(raw_items, title_field, time_field, item_id_field, base_url, url_template) ==
    IF raw_items = <<>> THEN <<>>
    ELSE LET item == Head(raw_items)
             rest == StandardizeItems(Tail(raw_items), title_field, time_field,
                                      item_id_field, base_url, url_template)
             std == StandardizedItem(item, title_field, time_field, item_id_field,
                                     base_url, url_template)
         IN IF item.t # "dict" THEN rest
            ELSE IF HasKey(std, "title") THEN <<Dict(std)>> \o rest
            ELSE rest

\* mutant: an empty items list is not in the standard format
IsStandardFormat_NonEmpty(data) ==
    /\ data.t = "dict"
    /\ HasKey(data.v, "items")
    /\ Get(data.v, "items", None).t = "list"
    /\ LET items_list == Get(data.v, "items", None).v IN
       IF Len(items_list) = 0 THEN FALSE
       ELSE items_list[1].t = "dict" /\ HasKey(items_list[1].v, "title")

\* lines 187-191: the response is already in the standard format
IsStandardFormat(data) ==
    /\ data.t = "dict"
    /\ HasKey(data.v, "items")
    /\ Get(data.v, "items", None).t = "list"
    /\ LET items_list == Get(data.v, "items", None).v IN
       IF Len(items_list) = 0 THEN TRUE
       ELSE items_list[1].t = "dict" /\ HasKey(items_list[1].v, "title")

\* lines 181-185: the dict the mapping path returns
Standardized(platform_id, its) ==
    Dict(<< <<"status", Str(<<"success">>)>>, <<"id", platform_id>>,
            <<"items", List(its)>> >>)

\* lines 197-211: the configuration read, with its defaults
data_parsing_of(platform_config) == Get(platform_config.v, "data_parsing", EmptyDict)

data_path_of(platform_config) ==
    Get(data_parsing_of(platform_config).v, "data_path", None)

fallback_enabled_of(platform_config) ==
    Get(data_parsing_of(platform_config).v, "fallback_enabled", Bool(TRUE))

fallback_fields_of(platform_config) ==
    Get(data_parsing_of(platform_config).v, "fallback_fields", DefaultFallbackFields)

field_mapping_of(platform_config) == Get(platform_config.v, "field_mapping", EmptyDict)

url_builder_of(platform_config) == Get(platform_config.v, "url_builder", EmptyDict)

base_url_of(platform_config) == Get(url_builder_of(platform_config).v, "base_url", None)

url_template_of(platform_config) ==
    Get(url_builder_of(platform_config).v, "template", DefaultTemplate)

\* lines 273-307 on the raw items `its` under the configuration
MappedItems(its, platform_config) ==
    StandardizeItems(its,
                     Get(field_mapping_of(platform_config).v, "title", None),
                     Get(field_mapping_of(platform_config).v, "publishTime", None),
                     Get(field_mapping_of(platform_config).v, "itemId", None),
                     base_url_of(platform_config), url_template_of(platform_config))

\* lines 181-309
standardize_custom_api_response(data, platform_id, platform_config) ==
    IF IsStandardFormat(data) THEN Dict(Put(data.v, "id", platform_id))
    ELSE IF ~Truthy(field_mapping_of(platform_config)) THEN Standardized(platform_id, <<>>)
    ELSE Standardized(platform_id,
                      MappedItems(SourceItems(data, data_path_of(platform_config),
                                              fallback_enabled_of(platform_config),
                                              fallback_fields_of(platform_config)),
                                  platform_config))

----------------------------------------------------------------------------
(* The merger on one fetch, one item a step *)

MaxItems == 3

\* a field the item does not carry
Absent == [t |-> "absent", v |-> <<>>]

Present(e) == e[2].t # "absent"

\* an item of the response: the fields it carries, in this order
Item(title, url, mobile_url, pub_date) ==
    Dict(SelectSeq(<< <<"title", title>>, <<"url", url>>,
                      <<"mobileUrl", mobile_url>>, <<"pubDate", pub_date>> >>,
                   Present))

\* one title, bare and between blanks
ValidTitles == {Str(<<"a">>), Str(<<" ", "a", " ">>)}

UrlPairs == {<<Str(<<"u">>), Str(<<"m">>)>>, <<Str(<<"v">>), Absent>>}

\* no pubDate, or a timestamp in milliseconds
PubDates == {Absent, Num(1600000000)}

\* readings of the clock (line 503)
Nows == {1650000, 1750000}

\* every valid title with every url pair and pubDate; then a blank title, no
\* title, a float title, an int title with pubDate 0, a timestamp in seconds,
\* another title with a date-time text that parses and one that does not, and
\* an item that is no dict
Items ==
    {Item(ti, u[1], u[2], pd) : ti \in ValidTitles, u \in UrlPairs, pd \in PubDates}
    \cup {Item(Str(<<" ">>), Str(<<"u">>), Absent, Absent),
          Item(Absent, Str(<<"u">>), Absent, Absent),
          Item(Float(1), Str(<<"u">>), Absent, Absent),
          Item(Num(7), Absent, Absent, Num(0)),
          Item(Str(<<"a">>), Str(<<"w">>), Absent, Num(1700000)),
          Item(Str(<<"b">>), Absent, Str(<<"m">>), DateStr(2, 1500000)),
          Item(Str(<<"b">>), Absent, Str(<<"n">>), DateStr(0, 1500000)),
          Str(<<"a">>)}

ItemLists == UNION {[1..n -> Items] : n \in 0..MaxItems}

\* the publish time line 503 leaves for the item, -1 when the item is skipped
ComputedTime(item, now) ==
    IF item.t # "dict" \/ SkippedTitle(Get(item.v, "title", None)) THEN -1
    ELSE publish_time_of(Get(item.v, "pubDate", None), now)

SaveIdle ==
    /\ snap_results = <<>>
    /\ snap_id_to_name = <<>>
    /\ snap_failed_ids = <<>>
    /\ snap_pc = "idle"
    /\ snap_p = 0
    /\ sorted_titles = <<>>
    /\ snap_t = 0
    /\ snap_lines = <<>>

StdIdle ==
    /\ std_data = None
    /\ std_config = None
    /\ std_pc = "idle"
    /\ std_items = <<>>
    /\ std_index = 0
    /\ standardized_items = <<>>
    /\ std_ret = None
    /\ fallback_consulted = FALSE

CrawlIdle ==
    /\ platforms = <<>>
    /\ request_interval = 0
    /\ actual_interval = 0
    /\ pc = "idle"
    /\ custom_platforms = <<>>
    /\ newsnow_platforms = <<>>
    /\ batch = "none"
    /\ i = 0
    /\ results = <<>>
    /\ id_to_name = <<>>
    /\ failed_ids = <<>>
    /\ retries = 0
    /\ data_json = None
    /\ custom_ret = [results |-> <<>>, id_to_name |-> <<>>, failed_ids |-> <<>>]
    /\ newsnow_ret = [results |-> <<>>, id_to_name |-> <<>>, failed_ids |-> <<>>]
    /\ outcome = None
    /\ wait_time = 0
    /\ attempts = 0
    /\ last_response = None
    /\ fate = <<>>

\* line 455 has run: results[platform_id] = {}
InitMerge ==
    /\ CrawlIdle
    /\ StdIdle
    /\ SaveIdle
    /\ items \in ItemLists
    /\ index = 0
    /\ title_map = <<>>
    /\ m_pc = "loop"
    /\ computed = <<>>

\* lines 461-519, one iteration; an exception leaves through line 522
MergeStep ==
    /\ m_pc = "loop"
    /\ index < Len(items)
    /\ \E now \in Nows :
         LET r == process_item(title_map, items[index + 1], index + 1, now) IN
         /\ index' = index + 1
         /\ title_map' = r.map
         /\ m_pc' = IF r.raised THEN "raised" ELSE "loop"
         /\ computed' = Append(computed, ComputedTime(items[index + 1], now))
    /\ UNCHANGED <<items, crawlVars, stdVars, saveVars>>

\* the loop is exhausted: the function returns
MergeReturn ==
    /\ m_pc = "loop"
    /\ index = Len(items)
    /\ m_pc' = "returned"
    /\ UNCHANGED <<items, index, title_map, computed, crawlVars, stdVars, saveVars>>

NextMerge == MergeStep \/ MergeReturn

SpecMerge == InitMerge /\ [][NextMerge]_vars

----------------------------------------------------------------------------
(* crawl_multiple_platforms and the two batch functions *)

MaxPlatforms == 2

\* lines 86 and 315: max_retries when nothing else is configured
DefaultMaxRetries == 2

IdA == Str(<<"A">>)
IdB == Str(<<"B">>)
ApiUrl == Str(<<"http:", "/", "/", "x">>)

\* The platform specs a run may be given.  Fixed class: an (id, name) tuple, a
\* bare id, an empty id, and a dict that carries no api_url key.  Custom class:
\* dicts with an api_url key, with max_retries 0, 1 (and a retry wait of 1 s
\* sharp) and unset, with and without field_mapping; one without id and one whose api_url is empty.
PlatformSpecs ==
    {Tuple(<<IdA, Str(<<"An">>)>>),
     IdB,
     Str(<<>>),
     Dict(<< <<"id", IdA>>, <<"name", Str(<<"Ad">>)>> >>),
     Dict(<< <<"id", IdA>>, <<"name", Str(<<"Ac">>)>>, <<"api_url", ApiUrl>>,
             <<"retry", Dict(<< <<"max_retries", Num(0)>> >>)>>,
             <<"data_parsing", Dict(<< <<"data_path", Str(<<"data", ".", "list">>)>> >>)>>,
             <<"field_mapping", Dict(<< <<"title", Str(<<"t">>)>> >>)>> >>),
     Dict(<< <<"id", IdA>>, <<"api_url", ApiUrl>>,
             <<"retry", Dict(<< <<"max_retries", Num(1)>>,
                                <<"min_retry_wait", Num(1)>>,
                                <<"max_retry_wait", Num(1)>> >>)>> >>),
     Dict(<< <<"id", IdB>>, <<"name", Str(<<"Bc">>)>>, <<"api_url", ApiUrl>> >>),
     Dict(<< <<"name", Str(<<"Xc">>)>>, <<"api_url", ApiUrl>> >>),
     Dict(<< <<"id", IdB>>, <<"api_url", Str(<<>>)>> >>)}

PlatformLists == UNION {[1..n -> PlatformSpecs] : n \in 0..MaxPlatforms}

\* requests raised, the status was not 2xx, or the body was not JSON
HttpError == [t |-> "error", v |-> <<>>]

\* Bodies the fixed API may answer with: a fresh list, a cached list whose
\* second item is no object, a fresh answer without items, an error status, and
\* an answer without status.
FixedResponses ==
    {Dict(<< <<"status", Str(<<"success">>)>>,
             <<"items", List(<<Item(Str(<<"a">>), Str(<<"u">>), Absent, Num(1700000))>>)>> >>),
     Dict(<< <<"status", Str(<<"cache">>)>>,
             <<"items", List(<<Item(Str(<<"a">>), Absent, Absent, Num(1700000)),
                               Str(<<"x">>)>>)>> >>),
     Dict(<< <<"status", Str(<<"success">>)>> >>),
     Dict(<< <<"status", Str(<<"error">>)>>, <<"items", List(<<>>)>> >>),
     Dict(<< <<"items", List(<<>>)>> >>)}

\* Bodies a custom API may answer with: a standard-format list, one whose second
\* item is no object, a nested list to be mapped, and a bare list.
CustomResponses ==
    {Dict(<< <<"items", List(<<Item(Str(<<"c">>), Str(<<"v">>), Absent, Num(1700000))>>)>> >>),
     Dict(<< <<"items", List(<<Item(Str(<<"c">>), Absent, Absent, Num(1700000)),
                               Num(1)>>)>> >>),
     Dict(<< <<"data", Dict(<< <<"list",
                List(<<Dict(<< <<"t", Str(<<" ", "c">>)>> >>)>>)>> >>)>> >>),
     List(<<Dict(<< <<"t", Str(<<"d">>)>> >>)>>)}

\* hash(x) succeeds: x may be a dict key
Hashable(x) == x.t \notin {"dict", "list"}

EmptyRet == [results |-> <<>>, id_to_name |-> <<>>, failed_ids |-> <<>>]

\* lines 666-672: the specs of one class, in the order given
IsCustomClass(platform_info) ==
    platform_info.t = "dict" /\ HasKey(platform_info.v, "api_url")

custom_of(ps) == SelectSeq(ps, IsCustomClass)

NotCustomClass(platform_info) == ~IsCustomClass(platform_info)

newsnow_of(ps) == SelectSeq(ps, NotCustomClass)

\* mutant: the NewsNow batch runs first
NextCall_NewsnowFirst(after) ==
    CASE after = "start" -> "newsnow"
      [] after = "newsnow" -> "custom"
      [] OTHER -> "merge"

\* lines 683-694: custom batch, then NewsNow batch, then the merge
NextCall(after) ==
    CASE after = "start" -> "custom"
      [] after = "custom" -> "newsnow"
      [] OTHER -> "merge"

\* lines 546-551 and 603-604: the id and the name of a spec
platform_id_of(b, platform_info) ==
    IF b = "custom" THEN Get(platform_info.v, "id", None)
    ELSE IF platform_info.t = "tuple" THEN platform_info.v[1] ELSE platform_info

platform_name_of(b, platform_info) ==
    IF b = "custom"
    THEN Get(platform_info.v, "name", platform_id_of(b, platform_info))
    ELSE IF platform_info.t = "tuple" THEN platform_info.v[2] ELSE platform_info

\* lines 553 and 607: the spec is skipped
Skipped(b, platform_info) ==
    IF b = "custom"
    THEN \/ ~Truthy(platform_id_of(b, platform_info))
         \/ ~Truthy(Get(platform_info.v, "api_url", None))
    ELSE ~Truthy(platform_id_of(b, platform_info))

\* lines 87-88 and 316-317: min_retry_wait and max_retry_wait when nothing else
\* is configured
DefaultMinRetryWait == 3
DefaultMaxRetryWait == 5

\* Durations are counted in ticks, Grain ticks to the second.
Grain == 1

\* random.uniform(a, b), a and b in seconds: any instant between the two, here
\* any tick
Uniform(a, b) ==
    IF a <= b THEN (a * Grain)..(b * Grain) ELSE (b * Grain)..(a * Grain)

\* lines 87-88; fetch_single_platform is called with its defaults (line 560)
min_retry_wait_of(b, platform_info) ==
    IF b = "custom"
    THEN Get(Get(platform_info.v, "retry", EmptyDict).v, "min_retry_wait",
             Num(DefaultMinRetryWait)).v
    ELSE DefaultMinRetryWait

max_retry_wait_of(b, platform_info) ==
    IF b = "custom"
    THEN Get(Get(platform_info.v, "retry", EmptyDict).v, "max_retry_wait",
             Num(DefaultMaxRetryWait)).v
    ELSE DefaultMaxRetryWait

\* mutant: the additional wait is counted from the first retry on
backoff_waits_FromFirstRetry(n, min_retry_wait, max_retry_wait) ==
    {base_wait + n * u : base_wait \in Uniform(min_retry_wait, max_retry_wait),
                         u \in Uniform(1, 2)}

\* lines 143-145 and 424-427: the wait_time values the sleep after the n-th
\* failure may take
backoff_waits(n, min_retry_wait, max_retry_wait) ==
    {base_wait + (n - 1) * u : base_wait \in Uniform(min_retry_wait, max_retry_wait),
                               u \in Uniform(1, 2)}

\* lines 85-86; fetch_single_platform is called with its default (line 560)
max_retries_of(b, platform_info) ==
    IF b = "custom"
    THEN Get(Get(platform_info.v, "retry", EmptyDict).v, "max_retries",
             Num(DefaultMaxRetries)).v
    ELSE DefaultMaxRetries

BatchList(b) == IF b = "custom" THEN custom_platforms ELSE newsnow_platforms

Current == BatchList(batch)[i + 1]

\* mutant: the last retry is not made
MayRetry_OneLess(n, max_retries) == n < max_retries

\* mutant: one more retry is made
MayRetry_OneMore(n, max_retries) == n <= max_retries + 1

\* lines 99, 142, 384 and 421: another attempt is allowed
MayRetry(n, max_retries) == n <= max_retries

\* mutant: any JSON object is accepted
StatusOk_AnyObject(response) == response.t = "dict"

\* lines 406-407: the fixed API's answer is accepted
StatusOk(response) ==
    /\ response.t = "dict"
    /\ Get(response.v, "status", Str(<<"unknown">>))
           \in {Str(<<"success">>), Str(<<"cache">>)}

\* lines 388-415 and 102-138: what one attempt returns, HttpError when it raised
attempt_result(b, response, platform_info) ==
    IF response = HttpError THEN HttpError
    ELSE IF b = "custom"
         THEN standardize_custom_api_response(
                  response, platform_id_of(b, platform_info), platform_info)
         ELSE IF StatusOk(response) THEN response ELSE HttpError

\* mutant: a failed platform is not recorded
handle_fetched_DropFailure(fetched, platform_id, results_in, failed_in, now) ==
    IF Truthy(fetched)
    THEN LET r == process_news_items(fetched, platform_id, results_in, now) IN
         [results |-> r.results, failed_ids |-> failed_in,
          end |-> IF r.raised THEN "process_raised" ELSE "processed"]
    ELSE [results |-> results_in, failed_ids |-> failed_in, end |-> "fetch_failed"]

\* mutant: a failed fetch leaves an empty entry in results
handle_fetched_EntryOnFailure(fetched, platform_id, results_in, failed_in, now) ==
    IF Truthy(fetched)
    THEN LET r == process_news_items(fetched, platform_id, results_in, now) IN
         [results |-> r.results,
          failed_ids |-> IF r.raised THEN Append(failed_in, platform_id) ELSE failed_in,
          end |-> IF r.raised THEN "process_raised" ELSE "processed"]
    ELSE [results |-> Put(results_in, platform_id, <<>>),
          failed_ids |-> Append(failed_in, platform_id), end |-> "fetch_failed"]

\* lines 563-570 and 617-624: [results, failed_ids] after the fetch returned,
\* and how the platform ended
handle_fetched(fetched, platform_id, results_in, failed_in, now) ==
    IF Truthy(fetched)
    THEN LET r == process_news_items(fetched, platform_id, results_in, now) IN
         [results |-> r.results,
          failed_ids |-> IF r.raised THEN Append(failed_in, platform_id) ELSE failed_in,
          end |-> IF r.raised THEN "process_raised" ELSE "processed"]
    ELSE [results |-> results_in,
          failed_ids |-> Append(failed_in, platform_id), end |-> "fetch_failed"]

\* lines 573 and 627: a pause follows the spec at 0-based index idx of n
paces(idx, n) == idx < n - 1

\* lines 574 and 628: draws of random.randint(-10, 20), its two ends and zero
Jitters == {-10, 0, 20}

\* mutant: the pause is not floored
actual_intervals_NoFloor(interval) == {interval + j : j \in Jitters}

\* lines 574-575 and 628-629: max(50, request_interval + randint(-10, 20))
actual_intervals(interval) ==
    {IF interval + j > 50 THEN interval + j ELSE 50 : j \in Jitters}

\* the intervals a run may be given: the default, and one about the floor
RequestIntervals == {1000, 45}

\* mutant: the custom batch is merged first, so the NewsNow entry wins
merge_dicts_CustomFirst(newsnow_d, custom_d) == Update(custom_d, newsnow_d)

\* lines 695-696: {**newsnow, **custom}
merge_dicts(newsnow_d, custom_d) == Update(newsnow_d, custom_d)

\* mutant: the custom failures come first
merge_failed_CustomFirst(newsnow_failed, custom_failed) == custom_failed \o newsnow_failed

\* line 697
merge_failed(newsnow_failed, custom_failed) == newsnow_failed \o custom_failed

MergeIdle ==
    /\ items = <<>>
    /\ index = 0
    /\ title_map = <<>>
    /\ m_pc = "idle"
    /\ computed = <<>>

Init ==
    /\ platforms \in PlatformLists
    /\ request_interval \in RequestIntervals
    /\ actual_interval = 0
    /\ pc = "start"
    /\ custom_platforms = <<>>
    /\ newsnow_platforms = <<>>
    /\ batch = "none"
    /\ i = 0
    /\ results = <<>>
    /\ id_to_name = <<>>
    /\ failed_ids = <<>>
    /\ retries = 0
    /\ data_json = None
    /\ custom_ret = EmptyRet
    /\ newsnow_ret = EmptyRet
    /\ outcome = None
    /\ wait_time = 0
    /\ attempts = 0
    /\ last_response = None
    /\ fate = <<>>
    /\ MergeIdle
    /\ StdIdle
    /\ SaveIdle

\* the pc at which line 684 (custom), line 689 (newsnow) or line 694 stands
PcOf(call) == IF call = "merge" THEN "merge" ELSE "call_" \o call

\* lines 662-681
Partition ==
    /\ pc = "start"
    /\ custom_platforms' = custom_of(platforms)
    /\ newsnow_platforms' = newsnow_of(platforms)
    /\ custom_ret' = EmptyRet
    /\ newsnow_ret' = EmptyRet
    /\ pc' = PcOf(NextCall("start"))
    /\ UNCHANGED <<platforms, request_interval, actual_interval, batch, i, results,
                   id_to_name, failed_ids, retries, data_json, outcome, attempts, fate, wait_time, last_response,
                   mergeVars, stdVars, saveVars>>

\* lines 684-687 and 689-692: the batch function is called for a non-empty
\* list only; lines 539-541 and 596-598 set its locals
CallBatch(b) ==
    /\ pc = PcOf(b)
    /\ IF BatchList(b) # <<>>
       THEN /\ pc' = "loop"
            /\ batch' = b
       ELSE /\ pc' = PcOf(NextCall(b))
            /\ batch' = "none"
    /\ i' = 0
    /\ results' = <<>>
    /\ id_to_name' = <<>>
    /\ failed_ids' = <<>>
    /\ UNCHANGED <<platforms, request_interval, actual_interval, custom_platforms,
                   newsnow_platforms, retries, data_json,
                   custom_ret, newsnow_ret, outcome, attempts, fate, wait_time, last_response,
                   mergeVars, stdVars, saveVars>>

\* lines 545-560 and 602-614: the next spec of the batch.  A skipped spec goes
\* on to the next one (continue); a NewsNow id that cannot be a dict key raises
\* TypeError at line 557, which nothing catches; otherwise the fetch starts
\* with retries = 0 (lines 98, 383).
LoopHead(b) ==
    /\ pc = "loop"
    /\ batch = b
    /\ i < Len(BatchList(b))
    /\ LET platform_id == platform_id_of(b, Current)
           platform_name == platform_name_of(b, Current)
       IN IF Skipped(b, Current)
          THEN /\ i' = i + 1
               /\ pc' = "loop"
               /\ UNCHANGED <<id_to_name, retries, data_json, attempts>>
          ELSE IF ~Hashable(platform_id)
          THEN /\ pc' = "raised"
               /\ UNCHANGED <<i, id_to_name, retries, data_json, attempts>>
          ELSE /\ id_to_name' = Put(id_to_name, platform_id, platform_name)
               /\ retries' = 0
               /\ attempts' = 0
               /\ data_json' = None
               /\ pc' = IF MayRetry(0, max_retries_of(b, Current))
                        THEN "fetch" ELSE "process"
               /\ UNCHANGED i
    /\ actual_interval' = 0
    /\ UNCHANGED <<platforms, request_interval, custom_platforms, newsnow_platforms,
                   batch, results, failed_ids, custom_ret, newsnow_ret, outcome, fate, wait_time, last_response,
                   mergeVars, stdVars, saveVars>>

\* lines 99-150 and 384-434: one pass of the retry loop, one HTTP request.
\* Success returns; a failure counts a retry and either sleeps wait_time and
\* goes round again or returns None.
Attempt(b) ==
    /\ pc = "fetch"
    /\ batch = b
    /\ \E response \in (IF b = "custom" THEN CustomResponses ELSE FixedResponses)
                        \cup {HttpError} :
         LET got == attempt_result(b, response, Current) IN
         /\ attempts' = attempts + 1
         /\ last_response' = response
         /\ IF got # HttpError
            THEN /\ data_json' = got
                 /\ pc' = "process"
                 /\ wait_time' = 0
                 /\ UNCHANGED retries
            ELSE /\ retries' = retries + 1
                 /\ data_json' = None
                 /\ IF MayRetry(retries + 1, max_retries_of(b, Current))
                    THEN /\ wait_time' \in backoff_waits(retries + 1,
                                                         min_retry_wait_of(b, Current),
                                                         max_retry_wait_of(b, Current))
                         /\ pc' = "fetch"
                    ELSE /\ wait_time' = 0
                         /\ pc' = "process"
    /\ UNCHANGED <<platforms, request_interval, actual_interval, custom_platforms,
                   newsnow_platforms, batch, i, results,
                   id_to_name, failed_ids, custom_ret, newsnow_ret, outcome, fate,
                   mergeVars, stdVars, saveVars>>

\* lines 562-570 and 616-624
Process(b) ==
    /\ pc = "process"
    /\ batch = b
    /\ \E now \in Nows :
         LET platform_id == platform_id_of(b, Current)
             h == handle_fetched(data_json, platform_id, results, failed_ids, now)
         IN /\ results' = h.results
            /\ failed_ids' = h.failed_ids
            /\ fate' = Append(fate, [batch |-> b, k |-> i + 1, id |-> platform_id,
                                     end |-> h.end, attempts |-> attempts,
                                     retries |-> retries, paced |-> FALSE])
    /\ last_response' = None
    /\ pc' = "pace"
    /\ UNCHANGED <<platforms, request_interval, actual_interval, custom_platforms,
                   newsnow_platforms, batch, i, id_to_name, retries, data_json, custom_ret, newsnow_ret, outcome,
                   attempts, wait_time, mergeVars, stdVars, saveVars>>

\* lines 572-576 and 626-630: unless the spec is the last of the list, the
\* pause of actual_interval milliseconds; then the loop goes on
Pace(b) ==
    /\ pc = "pace"
    /\ batch = b
    /\ IF paces(i, Len(BatchList(b)))
       THEN /\ actual_interval' \in actual_intervals(request_interval)
            /\ fate' = [fate EXCEPT ![Len(fate)].paced = TRUE]
       ELSE /\ actual_interval' = 0
            /\ UNCHANGED fate
    /\ i' = i + 1
    /\ pc' = "loop"
    /\ UNCHANGED <<platforms, request_interval, custom_platforms, newsnow_platforms,
                   batch, results, id_to_name, failed_ids, retries, data_json,
                   custom_ret, newsnow_ret, outcome, attempts, wait_time,
                   last_response, mergeVars, stdVars, saveVars>>

\* lines 578-579 and 632-633, and the assignment of lines 685 and 690
Return(b) ==
    /\ pc = "loop"
    /\ batch = b
    /\ i = Len(BatchList(b))
    /\ LET ret == [results |-> results, id_to_name |-> id_to_name,
                   failed_ids |-> failed_ids]
       IN IF b = "custom"
          THEN custom_ret' = ret /\ UNCHANGED newsnow_ret
          ELSE newsnow_ret' = ret /\ UNCHANGED custom_ret
    /\ pc' = PcOf(NextCall(b))
    /\ batch' = "none"
    /\ actual_interval' = 0
    /\ UNCHANGED <<platforms, request_interval, custom_platforms, newsnow_platforms,
                   i, results, id_to_name, failed_ids, retries, data_json, outcome, attempts,
                   fate, wait_time, last_response, mergeVars, stdVars, saveVars>>

\* lines 694-708
Merge ==
    /\ pc = "merge"
    /\ outcome' = [results |-> merge_dicts(newsnow_ret.results, custom_ret.results),
                   id_to_name |-> merge_dicts(newsnow_ret.id_to_name,
                                              custom_ret.id_to_name),
                   failed_ids |-> merge_failed(newsnow_ret.failed_ids,
                                               custom_ret.failed_ids)]
    /\ pc' = "done"
    /\ UNCHANGED <<platforms, request_interval, actual_interval, custom_platforms,
                   newsnow_platforms, batch, i, results,
                   id_to_name, failed_ids, retries, data_json, custom_ret,
                   newsnow_ret, attempts, fate, wait_time, last_response,
                   mergeVars, stdVars, saveVars>>

CallCustom == CallBatch("custom")
CallNewsnow == CallBatch("newsnow")
CustomLoopHead == LoopHead("custom")
NewsnowLoopHead == LoopHead("newsnow")
CustomAttempt == Attempt("custom")
NewsnowAttempt == Attempt("newsnow")
CustomProcess == Process("custom")
NewsnowProcess == Process("newsnow")
CustomPace == Pace("custom")
NewsnowPace == Pace("newsnow")
CustomReturn == Return("custom")
NewsnowReturn == Return("newsnow")

Next ==
    \/ Partition
    \/ CallCustom
    \/ CallNewsnow
    \/ CustomLoopHead
    \/ NewsnowLoopHead
    \/ CustomAttempt
    \/ NewsnowAttempt
    \/ CustomProcess
    \/ NewsnowProcess
    \/ CustomPace
    \/ NewsnowPace
    \/ CustomReturn
    \/ NewsnowReturn
    \/ Merge

Spec == Init /\ [][Next]_vars

\* the run has not ended: some step of Next can be taken
Running == pc \notin {"done", "raised"}

\* Every HTTP request returns or times out (line 392, the timeout of line 70)
\* and every sleep ends, so a step that can be taken is taken: weak fairness
\* of Next, WF_vars(Next), written out by its definition
\* []<>~ENABLED <<Next>>_vars \/ []<><<Next>>_vars with Running for the
\* enabling condition (NextEnabled below states that they are the same).
FairSpec == Spec /\ ([]<>(~Running) \/ []<><<Next>>_vars)

\* Next can take a step exactly while the run has not ended
NextEnabled == Running <=> ENABLED <<Next>>_vars

----------------------------------------------------------------------------
(* _standardize_custom_api_response on one response, one raw item a step *)

\* data_parsing as configured: nothing, a nested path, a one-key path, either
\* with the fallback switched off, and a nested path with other fallback fields
DataParsings ==
    {Absent,
     Dict(<< <<"data_path", Str(<<"data", ".", "list">>)>> >>),
     Dict(<< <<"data_path", Str(<<"data">>)>> >>),
     Dict(<< <<"data_path", Str(<<"data", ".", "list">>)>>,
             <<"fallback_enabled", Bool(FALSE)>> >>),
     Dict(<< <<"fallback_enabled", Bool(FALSE)>> >>),
     Dict(<< <<"data_path", Str(<<"data", ".", "list">>)>>,
             <<"fallback_fields", List(<<"result", "list">>)>> >>)}

\* field_mapping as configured: nothing, one-key paths, nested title path
FieldMappings ==
    {Absent,
     Dict(<< <<"title", Str(<<"t">>)>>, <<"itemId", Str(<<"id">>)>> >>),
     Dict(<< <<"title", Str(<<"a", ".", "b">>)>>, <<"publishTime", Str(<<"ts">>)>>,
             <<"itemId", Str(<<"id">>)>> >>)}

\* url_builder as configured: nothing, a base with a trailing slash and the
\* default template, a base with a template of its own
UrlBuilders ==
    {Absent,
     Dict(<< <<"base_url", Str(<<"https:", "/", "/", "x", ".", "com", "/">>)>> >>),
     Dict(<< <<"base_url", Str(<<"https:", "/", "/", "x", ".", "com">>)>>,
             <<"template", Str(<<"{base_url}", "/", "post", "/", "{itemId}">>)>> >>)}

StdConfigs ==
    {Dict(SelectSeq(<< <<"id", IdA>>, <<"api_url", ApiUrl>>, <<"data_parsing", dp>>,
                       <<"field_mapping", fm>>, <<"url_builder", ub>> >>, Present)) :
        dp \in DataParsings, fm \in FieldMappings, ub \in UrlBuilders}

\* Raw responses: a nested list of one item; a nested list with a blank title,
\* a title to trim, a nested title with a time and an id in slashes, a title
\* path over a text and over an object without the key, a zero title and a
\* number; an empty nested list beside another list; a list under the first
\* key of the path; a bare list; an object where a list is expected; lists
\* under `items` with titles on all, on the first and on none of the items, and
\* an empty one; a list under a fallback key of the object that the path runs
\* into, beside another list; a number and null.
StdRaws ==
    {Dict(<< <<"data", Dict(<< <<"list", List(<<
        Dict(<< <<"t", Str(<<"Hello">>)>>, <<"id", Str(<<"42">>)>> >>) >>)>> >>)>> >>),
     Dict(<< <<"data", Dict(<< <<"list", List(<<
        Dict(<< <<"t", Str(<<" ", " ">>)>> >>),
        Dict(<< <<"t", Str(<<" ", "c">>)>> >>),
        Dict(<< <<"a", Dict(<< <<"b", Str(<<"n">>)>> >>)>>, <<"ts", Num(1700000)>>,
                <<"id", Str(<<"/", "7">>)>> >>),
        Dict(<< <<"a", Str(<<"s">>)>>, <<"id", Num(7)>> >>),
        Dict(<< <<"a", Dict(<< <<"c", Str(<<"m">>)>> >>)>>, <<"t", Num(0)>> >>),
        Num(5) >>)>> >>)>> >>),
     Dict(<< <<"data", Dict(<< <<"list", List(<<>>)>> >>)>>,
             <<"result", List(<<Dict(<< <<"t", Str(<<"x">>)>> >>)>>)>> >>),
     Dict(<< <<"data", List(<<Dict(<< <<"t", Str(<<"d">>)>> >>)>>)>>,
             <<"list", List(<<Dict(<< <<"t", Str(<<"l">>)>> >>)>>)>> >>),
     List(<<Dict(<< <<"t", Str(<<"e">>)>> >>)>>),
     Dict(<< <<"data", Dict(<< <<"list", Dict(<< <<"t", Str(<<"o">>)>> >>)>> >>)>>,
             <<"list", List(<<Dict(<< <<"t", Str(<<"f">>)>> >>)>>)>> >>),
     Dict(<< <<"id", Str(<<"old">>)>>,
             <<"items", List(<<Dict(<< <<"title", Str(<<" ", "c">>)>>,
                                       <<"url", Str(<<"u">>)>> >>),
                               Dict(<< <<"title", Str(<<"d">>)>>,
                                       <<"t", Str(<<"k">>)>> >>)>>)>>,
             <<"more", Num(1)>> >>),
     Dict(<< <<"items", List(<<Dict(<< <<"title", Str(<<"c">>)>>,
                                       <<"t", Str(<<"g">>)>> >>),
                               Num(1)>>)>> >>),
     Dict(<< <<"items", List(<<Dict(<< <<"t", Str(<<"q">>)>> >>)>>)>> >>),
     Dict(<< <<"items", List(<<>>)>>, <<"data", List(<<Dict(<< <<"t", Str(<<"h">>)>> >>)>>)>> >>),
     Dict(<< <<"data", Dict(<< <<"items", List(<<Dict(<< <<"t", Str(<<"w">>)>> >>)>>)>> >>)>>,
             <<"result", List(<<Dict(<< <<"t", Str(<<"r">>)>> >>)>>)>> >>),
     Num(5),
     None}

InitStd ==
    /\ CrawlIdle
    /\ MergeIdle
    /\ SaveIdle
    /\ std_data \in StdRaws
    /\ std_config \in StdConfigs
    /\ std_pc = "start"
    /\ std_items = <<>>
    /\ std_index = 0
    /\ standardized_items = <<>>
    /\ std_ret = None
    /\ fallback_consulted = FALSE

\* line 59 of fetch_custom_api: the platform_id passed
std_platform_id == Get(std_config.v, "id", None)

\* lines 188-194
StdFastPath ==
    /\ std_pc = "start"
    /\ IsStandardFormat(std_data)
    /\ std_ret' = Dict(Put(std_data.v, "id", std_platform_id))
    /\ std_pc' = "returned"
    /\ UNCHANGED <<std_data, std_config, std_items, std_index, standardized_items,
                   fallback_consulted, mergeVars, crawlVars, saveVars>>

\* lines 203-206
StdNoMapping ==
    /\ std_pc = "start"
    /\ ~IsStandardFormat(std_data)
    /\ ~Truthy(field_mapping_of(std_config))
    /\ std_ret' = Standardized(std_platform_id, <<>>)
    /\ std_pc' = "returned"
    /\ UNCHANGED <<std_data, std_config, std_items, std_index, standardized_items,
                   fallback_consulted, mergeVars, crawlVars, saveVars>>

\* lines 209-256: the raw items are located
StdLocate ==
    /\ std_pc = "start"
    /\ ~IsStandardFormat(std_data)
    /\ Truthy(field_mapping_of(std_config))
    /\ std_items' = SourceItems(std_data, data_path_of(std_config),
                                fallback_enabled_of(std_config),
                                fallback_fields_of(std_config))
    /\ fallback_consulted' = fallback_tried(items_by_path(std_data, data_path_of(std_config)),
                                            fallback_enabled_of(std_config))
    /\ std_pc' = "loop"
    /\ UNCHANGED <<std_data, std_config, std_index, standardized_items, std_ret,
                   mergeVars, crawlVars, saveVars>>

\* lines 273-307, one iteration
StdMapItem ==
    /\ std_pc = "loop"
    /\ std_index < Len(std_items)
    /\ standardized_items' =
           standardized_items \o MappedItems(<<std_items[std_index + 1]>>, std_config)
    /\ std_index' = std_index + 1
    /\ UNCHANGED <<std_data, std_config, std_pc, std_items, std_ret,
                   fallback_consulted, mergeVars, crawlVars, saveVars>>

\* line 309
StdReturn ==
    /\ std_pc = "loop"
    /\ std_index = Len(std_items)
    /\ std_ret' = Standardized(std_platform_id, standardized_items)
    /\ std_pc' = "returned"
    /\ UNCHANGED <<std_data, std_config, std_items, std_index, standardized_items,
                   fallback_consulted, mergeVars, crawlVars, saveVars>>

NextStd == StdFastPath \/ StdNoMapping \/ StdLocate \/ StdMapItem \/ StdReturn

SpecStd == InitStd /\ [][NextStd]_vars

----------------------------------------------------------------------------
(* save_to_file: the snapshot writer, one line a step *)

MaxSections == 2

IdC == Str(<<"C">>)

\* line 893: the banner
Banner == <<"==", " ", "ID request failed", " ", "==">>

\* the whitespace a title may hold: blank and newline
IsWhite(c) == c = " " \/ c = "\n"

\* line 834 and 835: runs of whitespace become one blank, then strip()
RECURSIVE Collapse(_)
Collapse(s) ==
    IF s = <<>> THEN <<>>
    ELSE IF IsWhite(Head(s))
         THEN IF Tail(s) # <<>> /\ IsWhite(Head(Tail(s)))
              THEN Collapse(Tail(s))
              ELSE <<" ">> \o Collapse(Tail(s))
         ELSE <<Head(s)>> \o Collapse(Tail(s))

\* lines 829-835
clean_title(title) == Strip(Collapse(title))

\* An info is the record the merger builds (lines 514-519) or, for line 857,
\* any other value.
IsInfoDict(info) == "ranks" \in DOMAIN info

\* lines 851-868: the tuple appended to sorted_titles
title_entry(title, info, now) ==
    LET ranks == IF IsInfoDict(info) THEN info.ranks
                 ELSE IF info.t = "list" THEN info.v ELSE <<>>
    IN [rank |-> IF ranks # <<>> THEN ranks[1] ELSE 1,
        cleaned_title |-> clean_title(title),
        url |-> IF IsInfoDict(info) THEN info.url ELSE Str(<<>>),
        mobile_url |-> IF IsInfoDict(info) THEN info.mobileUrl ELSE Str(<<>>),
        publish_time |-> IF IsInfoDict(info) THEN info.publishTime ELSE now]

\* lines 849-868
RECURSIVE title_entries(_, _)
title_entries(title_data, now) ==
    IF title_data = <<>> THEN <<>>
    ELSE <<title_entry(title_data[1][1], title_data[1][2], now)>>
         \o title_entries(Tail(title_data), now)

\* mutant: an entry goes before the entries of its rank
InsertByRank_BeforeEqual(sorted, x) ==
    LET n == Cardinality({k \in 1..Len(sorted) : sorted[k].rank < x.rank}) IN
    SubSeq(sorted, 1, n) \o <<x>> \o SubSeq(sorted, n + 1, Len(sorted))

\* list.sort is stable: into a sorted list, an entry goes behind the entries
\* of its rank or less
InsertByRank(sorted, x) ==
    LET n == Cardinality({k \in 1..Len(sorted) : sorted[k].rank <= x.rank}) IN
    SubSeq(sorted, 1, n) \o <<x>> \o SubSeq(sorted, n + 1, Len(sorted))

\* line 871: sorted_titles.sort(key=lambda x: x[0])
RECURSIVE SortByRank(_)
SortByRank(entries) ==
    IF entries = <<>> THEN <<>>
    ELSE InsertByRank(SortByRank(SubSeq(entries, 1, Len(entries) - 1)),
                      entries[Len(entries)])

\* lines 842-845: the header line of a section
header_line(id_value, name) ==
    IF Truthy(name) /\ name # id_value
    THEN PyStr(id_value) \o <<" | ">> \o PyStr(name)
    ELSE PyStr(id_value)

\* lines 876-885: the line of one entry; the time is written in digits
title_line(entry) ==
    Digits(entry.publish_time) \o <<" ">> \o entry.cleaned_title
    \o (IF Truthy(entry.url) THEN <<" [URL:">> \o PyStr(entry.url) \o <<"]">> ELSE <<>>)
    \o (IF Truthy(entry.mobile_url)
        THEN <<" [MOBILE:">> \o PyStr(entry.mobile_url) \o <<"]">> ELSE <<>>)

\* mutant: the banner is written whether or not a platform failed
failure_lines_Always(ids) ==
    <<Banner>> \o [k \in 1..Len(ids) |-> PyStr(ids[k])]

\* lines 892-895
failure_lines(ids) ==
    IF ids # <<>> THEN <<Banner>> \o [k \in 1..Len(ids) |-> PyStr(ids[k])] ELSE <<>>

\* Title maps to write: none; first ranks 5, 1, 3; first ranks 2, 2, 1, 1 from
\* a record, a bare rank list, a record without ranks and a number; and a
\* title holding a newline.
TitleMaps ==
    {<<>>,
     << <<<<"x">>, NewRecord(5, Str(<<"u">>), Str(<<"m">>), 1700000)>>,
        <<<<"y">>, [NewRecord(1, Str(<<"v">>), Str(<<>>), 1600000)
                      EXCEPT !.ranks = <<1, 4>>]>>,
        <<<<"z">>, NewRecord(3, Str(<<>>), Str(<<>>), 1650000)>> >>,
     << <<<<"p">>, [NewRecord(2, Str(<<"u">>), Str(<<>>), 1700000)
                      EXCEPT !.ranks = <<2, 4>>]>>,
        <<<<"q">>, List(<<2>>)>>,
        <<<<"r">>, [NewRecord(1, Str(<<>>), Str(<<>>), 1600000) EXCEPT !.ranks = <<>>]>>,
        <<<<"s">>, Num(0)>> >>,
     << <<<<"a", "\n", " ", "b">>, NewRecord(1, Str(<<>>), Str(<<"m">>), 1700000)>> >>}

SnapIds == {IdA, IdB, IdC}

\* result maps of up to MaxSections platforms, of different ids
SnapResults ==
    UNION {{r \in [1..n -> SnapIds \X TitleMaps] :
               \A j \in 1..n, k \in 1..n : j # k => r[j][1] # r[k][1]} :
           n \in 0..MaxSections}

SnapNames ==
    {<<>>, << <<IdA, Str(<<"An">>)>>, <<IdB, IdB>>, <<IdC, Str(<<"Cn">>)>> >>}

SnapFailed == {<<>>, <<IdB>>, <<IdA, IdB>>, <<IdB, IdA>>}

\* line 838: the file is open and empty
InitSave ==
    /\ CrawlIdle
    /\ MergeIdle
    /\ StdIdle
    /\ snap_results \in SnapResults
    /\ snap_id_to_name \in SnapNames
    /\ snap_failed_ids \in SnapFailed
    /\ snap_pc = "header"
    /\ snap_p = 0
    /\ sorted_titles = <<>>
    /\ snap_t = 0
    /\ snap_lines = <<>>

\* lines 839-845: the next platform's header
WriteHeader ==
    /\ snap_pc = "header"
    /\ snap_p < Len(snap_results)
    /\ LET id_value == snap_results[snap_p + 1][1] IN
       snap_lines' = Append(snap_lines,
                            header_line(id_value, Get(snap_id_to_name, id_value, None)))
    /\ snap_pc' = "sort"
    /\ UNCHANGED <<snap_results, snap_id_to_name, snap_failed_ids, snap_p,
                   sorted_titles, snap_t, mergeVars, crawlVars, stdVars>>

\* lines 848-871
SortTitles ==
    /\ snap_pc = "sort"
    /\ \E now \in Nows :
         sorted_titles' = SortByRank(title_entries(snap_results[snap_p + 1][2], now))
    /\ snap_t' = 0
    /\ snap_pc' = "titles"
    /\ UNCHANGED <<snap_results, snap_id_to_name, snap_failed_ids, snap_p,
                   snap_lines, mergeVars, crawlVars, stdVars>>

\* lines 874-887, one iteration
WriteTitle ==
    /\ snap_pc = "titles"
    /\ snap_t < Len(sorted_titles)
    /\ snap_lines' = Append(snap_lines, title_line(sorted_titles[snap_t + 1]))
    /\ snap_t' = snap_t + 1
    /\ UNCHANGED <<snap_results, snap_id_to_name, snap_failed_ids, snap_pc, snap_p,
                   sorted_titles, mergeVars, crawlVars, stdVars>>

\* line 889: the empty line that ends a section
EndSection ==
    /\ snap_pc = "titles"
    /\ snap_t = Len(sorted_titles)
    /\ snap_lines' = Append(snap_lines, <<>>)
    /\ snap_p' = snap_p + 1
    /\ snap_pc' = "header"
    /\ UNCHANGED <<snap_results, snap_id_to_name, snap_failed_ids, sorted_titles,
                   snap_t, mergeVars, crawlVars, stdVars>>

\* lines 892-897: the failure section, and the file is closed
WriteFailures ==
    /\ snap_pc = "header"
    /\ snap_p = Len(snap_results)
    /\ snap_lines' = snap_lines \o failure_lines(snap_failed_ids)
    /\ snap_pc' = "closed"
    /\ UNCHANGED <<snap_results, snap_id_to_name, snap_failed_ids, snap_p,
                   sorted_titles, snap_t, mergeVars, crawlVars, stdVars>>

NextSave == WriteHeader \/ SortTitles \/ WriteTitle \/ EndSection \/ WriteFailures

SpecSave == InitSave /\ [][NextSave]_vars

----------------------------------------------------------------------------
(* Claims about the fetch clients and the aggregator (Spec) *)

Range(f) == {f[n] : n \in 1..Len(f)}

ClassOf(platform_info) == IF IsCustomClass(platform_info) THEN "custom" ELSE "newsnow"

\* the spec is neither skipped nor fatal: it is fetched
Valid(platform_info) ==
    /\ ~Skipped(ClassOf(platform_info), platform_info)
    /\ Hashable(platform_id_of(ClassOf(platform_info), platform_info))

\* the spec the history entry e is about
SpecOf(e) == BatchList(e.batch)[e.k]

Failure(e) == e.end \in {"fetch_failed", "process_raised"}

\* the failed ids a batch has collected so far
BatchFailed(b) ==
    IF batch = b THEN failed_ids
    ELSE IF b = "custom" THEN custom_ret.failed_ids ELSE newsnow_ret.failed_ids

\* C1: a fetch that returns None has made exactly max_retries + 1 requests, all
\* failed; a fetch that returns data has made one successful request, its last,
\* after at most max_retries failed ones; while the loop runs every request so
\* far has failed and fewer than max_retries + 1 were made.
C1_AttemptsBeforeFailure ==
    /\ \A e \in Range(fate) :
         LET max_retries == max_retries_of(e.batch, SpecOf(e)) IN
         IF e.end = "fetch_failed"
         THEN e.attempts = max_retries + 1 /\ e.retries = e.attempts
         ELSE e.attempts = e.retries + 1 /\ e.attempts <= max_retries + 1
    /\ pc = "fetch" => attempts = retries /\ attempts <= max_retries_of(batch, Current)
    /\ pc = "process" =>
         IF Truthy(data_json) THEN attempts = retries + 1
         ELSE attempts = max_retries_of(batch, Current) + 1

\* a NewsNow fetch that failed after 3 requests and a custom fetch that
\* succeeded at its second request
C1_Witness ==
    \E e1 \in Range(fate), e2 \in Range(fate) :
        /\ e1.batch = "newsnow" /\ e1.end = "fetch_failed" /\ e1.attempts = 3
        /\ e2.batch = "custom" /\ e2.end = "processed"
        /\ e2.retries = 1 /\ e2.attempts = 2

UniqueIds ==
    \A p \in 1..Len(platforms), q \in 1..Len(platforms) :
        (p # q /\ Valid(platforms[p]) /\ Valid(platforms[q])) =>
            platform_id_of(ClassOf(platforms[p]), platforms[p])
                # platform_id_of(ClassOf(platforms[q]), platforms[q])

\* fixed A failing every request, custom B processed
ScenarioAB ==
    /\ Len(fate) = 2
    /\ \E e \in Range(fate) :
         e.batch = "newsnow" /\ e.id = IdA /\ e.end = "fetch_failed" /\ e.attempts = 3
    /\ \E e \in Range(fate) : e.batch = "custom" /\ e.id = IdB /\ e.end = "processed"

\* C3: with unique ids, at the end of the run a platform whose fetch failed on
\* every request is in failed_ids and has no entry in results, and a platform
\* fetched and processed cleanly has an entry in results and is not in
\* failed_ids; fixed A failing with custom B succeeding gives failed_ids == [A]
\* and results holding only B.
C3_FailedOrResult ==
    (pc = "done" /\ UniqueIds) =>
        /\ \A e \in Range(fate) :
             /\ e.end = "fetch_failed" =>
                  /\ e.id \in Range(outcome.failed_ids)
                  /\ ~HasKey(outcome.results, e.id)
             /\ e.end = "processed" =>
                  /\ HasKey(outcome.results, e.id)
                  /\ e.id \notin Range(outcome.failed_ids)
        /\ ScenarioAB =>
             outcome.failed_ids = <<IdA>> /\ Keys(outcome.results) = {IdB}

C3_Witness == pc = "done" /\ UniqueIds /\ ScenarioAB

AcceptedStatus(response) ==
    /\ response.t = "dict"
    /\ HasKey(response.v, "status")
    /\ \/ Get(response.v, "status", None) = Str(<<"success">>)
       \/ Get(response.v, "status", None) = Str(<<"cache">>)

\* C12: while a fixed fetch runs and when it has returned, it returns data only
\* if its last request was answered with a status of "success" or "cache", and
\* returns that answer; an answer with another status or none is a failed
\* attempt like a transport error: it counts a retry, and the fetch goes on to
\* the next request exactly while retries <= max_retries.
C12_StatusChecked ==
    (batch = "newsnow" /\ pc \in {"fetch", "process"} /\ attempts >= 1) =>
        /\ Truthy(data_json) => (AcceptedStatus(last_response) /\ data_json = last_response)
        /\ ~AcceptedStatus(last_response) =>
              /\ data_json = None
              /\ retries = attempts
              /\ pc = "fetch" <=> retries <= DefaultMaxRetries
        /\ AcceptedStatus(last_response) => pc = "process" /\ data_json = last_response

\* a fixed fetch given up after three requests, the last one answered without
\* a status
C12_Witness ==
    /\ batch = "newsnow" /\ pc = "process"
    /\ data_json = None /\ attempts = 3
    /\ last_response.t = "dict" /\ ~HasKey(last_response.v, "status")

\* the batch has returned
Returned(b) ==
    IF b = "custom" THEN pc \in {"call_newsnow", "merge", "done"} \/ batch = "newsnow"
    ELSE pc \in {"merge", "done"}

\* C23 (as claimed): within a batch a pacing sleep is made between every two
\* consecutive platform fetches, and none after the last platform fetch of the
\* batch, also when the specs behind it are skipped.
C23_PacedBetweenOnly ==
    \A p \in 1..Len(fate) :
        /\ (p < Len(fate) /\ fate[p + 1].batch = fate[p].batch) => fate[p].paced
        /\ (/\ Returned(fate[p].batch)
            /\ \A q \in (p + 1)..Len(fate) : fate[q].batch # fate[p].batch)
              => ~fate[p].paced

\* C24: every pacing sleep lasts max(50, request_interval + j) milliseconds
\* for an integer j from -10 to 20, hence at least 50 ms, whatever
\* request_interval is; and a platform counted as paced was slept after.
C24_PacingFloor ==
    /\ actual_interval # 0 =>
         /\ \E j \in (-10)..20 :
              actual_interval = IF request_interval + j >= 50
                                THEN request_interval + j ELSE 50
         /\ actual_interval >= 50
    /\ (pc = "loop" /\ fate # <<>> /\ fate[Len(fate)].batch = batch
          /\ fate[Len(fate)].k = i /\ fate[Len(fate)].paced) => actual_interval >= 50

\* a pacing sleep under a request_interval below the floor: 50 ms
C24_Witness ==
    /\ request_interval < 50
    /\ pc = "loop"
    /\ actual_interval = 50
    /\ fate[Len(fate)].paced

\* the HTTP requests the run has made
RECURSIVE AttemptsIn(_)
AttemptsIn(history) ==
    IF history = <<>> THEN 0 ELSE Head(history).attempts + AttemptsIn(Tail(history))

TotalAttempts ==
    AttemptsIn(fate) + (IF pc \in {"fetch", "process"} THEN attempts ELSE 0)

\* the sum over the platform specs of max_retries + 1
RECURSIVE AttemptBudget(_)
AttemptBudget(ps) ==
    IF ps = <<>> THEN 0
    ELSE max_retries_of(ClassOf(Head(ps)), Head(ps)) + 1 + AttemptBudget(Tail(ps))

AttemptsBounded == TotalAttempts <= AttemptBudget(platforms)

\* a sleep is made by a failed request (the backoff) or between two specs (the
\* pacing), by no other step
SleepsOnlyThere ==
    /\ (wait_time' # wait_time /\ wait_time' # 0) => (pc = "fetch" /\ pc' = "fetch")
    /\ (actual_interval' # actual_interval /\ actual_interval' # 0) => pc = "pace"

Ended == ~Running

\* C25: with every request returning or timing out, a run ends; the HTTP
\* requests made never exceed the sum over the platform specs of
\* max_retries + 1; and only the retry backoff and the pacing between specs
\* make the run sleep.
C25_Terminates == <>Ended /\ [](AttemptsBounded) /\ [][SleepsOnlyThere]_vars

\* a run ended that has used up its whole budget of requests, 3 + 3, after
\* backoff and pacing sleeps
C25_Witness ==
    /\ pc = "done"
    /\ Len(fate) = 2
    /\ fate[1].paced
    /\ TotalAttempts = 6
    /\ AttemptBudget(platforms) = 6

\* C26 (as claimed): with unique ids, at the end of a run no platform id is
\* both a key of results and a member of failed_ids, a platform whose items
\* raised part-way through included.
C26_ResultOrFailedNotBoth ==
    (pc = "done" /\ UniqueIds) =>
        Keys(outcome.results) \cap Range(outcome.failed_ids) = {}

\* the platform specs that are not skipped as invalid
NotSkipped == {p \in 1..Len(platforms) : ~Skipped(ClassOf(platforms[p]), platforms[p])}

\* the run returned results, id_to_name and failed_ids, and in them every spec
\* that was not skipped is reported and every reported id is named
Reported ==
    /\ pc = "done"
    /\ \A p \in NotSkipped :
         LET id == platform_id_of(ClassOf(platforms[p]), platforms[p]) IN
         HasKey(outcome.results, id) \/ id \in Range(outcome.failed_ids)
    /\ \A id \in Keys(outcome.results) \cup Range(outcome.failed_ids) :
         HasKey(outcome.id_to_name, id)
    /\ \A e \in Range(fate) :
         (e.end = "processed" /\ UniqueIds) => e.id \notin Range(outcome.failed_ids)

\* C27 (as claimed): every spec that is not skipped as invalid ends the run as
\* a key of results or a member of failed_ids, a fetch of zero items as a key
\* of results; and every id in results or failed_ids has an entry in
\* id_to_name.
C27_EverySpecReported == Ended => Reported

\* C27 on the runs that return
C27_ReturnedReported == pc = "done" => Reported

\* C4 (as claimed): crawl_multiple_platforms never raises because of a
\* defective platform spec.
C4_NeverRaises == pc # "raised"

InBoth(d1, d2) == Keys(d1) \cap Keys(d2)

\* C5 (as claimed): on a key in both batches' maps, the merged results and
\* id_to_name hold the fixed-batch entry.
C5_FixedWins ==
    pc = "done" =>
        /\ \A k \in InBoth(custom_ret.results, newsnow_ret.results) :
             Get(outcome.results, k, None) = Get(newsnow_ret.results, k, None)
        /\ \A k \in InBoth(custom_ret.id_to_name, newsnow_ret.id_to_name) :
             Get(outcome.id_to_name, k, None) = Get(newsnow_ret.id_to_name, k, None)

\* the merged map holds d2's entry for d2's keys and d1's for the other keys
Overrides(merged, d1, d2) ==
    /\ Keys(merged) = Keys(d1) \cup Keys(d2)
    /\ \A k \in Keys(d2) : Get(merged, k, None) = Get(d2, k, None)
    /\ \A k \in Keys(d1) \ Keys(d2) : Get(merged, k, None) = Get(d1, k, None)

\* C5 (amended): the merged results and id_to_name hold the custom-batch entry
\* for every key of the custom batch, also one the fixed batch has, and the
\* fixed-batch entry for the other keys.
C5_CustomWins ==
    pc = "done" =>
        /\ Overrides(outcome.results, newsnow_ret.results, custom_ret.results)
        /\ Overrides(outcome.id_to_name, newsnow_ret.id_to_name, custom_ret.id_to_name)

\* one id in both batches, with different entries and different names
C5_Witness ==
    /\ pc = "done"
    /\ \E k \in InBoth(custom_ret.results, newsnow_ret.results) :
         /\ Get(custom_ret.results, k, None) # Get(newsnow_ret.results, k, None)
         /\ Get(custom_ret.id_to_name, k, None) # Get(newsnow_ret.id_to_name, k, None)

\* the ids that failed in batch b, in the order they failed
RECURSIVE FailedIn(_, _)
FailedIn(b, history) ==
    IF history = <<>> THEN <<>>
    ELSE (IF Head(history).batch = b /\ Failure(Head(history))
          THEN <<Head(history).id>> ELSE <<>>) \o FailedIn(b, Tail(history))

\* C6 (as claimed): failed_ids is the custom failures followed by the fixed ones.
C6_CustomThenFixed ==
    pc = "done" =>
        outcome.failed_ids = FailedIn("custom", fate) \o FailedIn("newsnow", fate)

\* C6 (amended): failed_ids is the fixed-batch failures, in the order they
\* failed, followed by the custom-batch failures, in the order they failed.
C6_FixedThenCustom ==
    pc = "done" =>
        outcome.failed_ids = FailedIn("newsnow", fate) \o FailedIn("custom", fate)

\* failures in both batches, of different ids
C6_Witness ==
    /\ pc = "done"
    /\ FailedIn("custom", fate) # <<>>
    /\ FailedIn("newsnow", fate) # <<>>
    /\ FailedIn("custom", fate) # FailedIn("newsnow", fate)

----------------------------------------------------------------------------
(* Claims about the merger (SpecMerge) *)

Blank(s) == \A n \in 1..Len(s) : s[n] = " "

\* t is s without its leading and trailing blanks
IsTrimOf(t, s) ==
    /\ t # <<>> => (t[1] # " " /\ t[Len(t)] # " ")
    /\ \E a \in 0..Len(s), b \in 0..Len(s) :
         /\ a + Len(t) + b = Len(s)
         /\ \A n \in 1..a : s[n] = " "
         /\ \A n \in 1..Len(t) : s[a + n] = t[n]
         /\ \A n \in 1..b : s[a + Len(t) + n] = " "

\* the item at position p is an object with a usable title
Occurs(p) ==
    /\ items[p].t = "dict"
    /\ LET ti == Get(items[p].v, "title", None) IN
       ti.t \notin {"null", "float"} /\ ~Blank(PyStr(ti))

\* the title at position p occurs as `key`
OccursAs(p, key) ==
    Occurs(p) /\ IsTrimOf(key, PyStr(Get(items[p].v, "title", None)))

\* the positions up to n at which `key` occurred, ascending
RECURSIVE Positions(_, _)
Positions(key, n) ==
    IF n = 0 THEN <<>>
    ELSE IF OccursAs(n, key) THEN Append(Positions(key, n - 1), n)
         ELSE Positions(key, n - 1)

SetMin(S) == CHOOSE x \in S : \A y \in S : x <= y

Rec(key) == Get(title_map, key, None)

\* C8: while and after one fetch is merged, each title's ranks are exactly the
\* 1-based positions, in arrival order, at which the trimmed title occurred
\* among the items consumed so far, and every title that occurred has a record.
C8_RanksArePositions ==
    /\ \A key \in Keys(title_map) : Rec(key).ranks = Positions(key, index)
    /\ \A p \in 1..index :
         Occurs(p) => \E key \in Keys(title_map) : OccursAs(p, key)

\* a fetch merged to its end in which one title sits at positions 1 and 3
C8_Witness ==
    /\ m_pc = "returned"
    /\ \E key \in Keys(title_map) : Rec(key).ranks = <<1, 3>>

StoredIsEarliest ==
    \A key \in Keys(title_map) :
        Rec(key).publishTime =
            SetMin({computed[p] : p \in {q \in 1..index : OccursAs(q, key)}})

StoredNeverRises ==
    \A key \in Keys(title_map) :
        /\ HasKey(title_map', key)
        /\ Get(title_map', key, None).publishTime <= Rec(key).publishTime

\* C9: the stored publish time of every title equals the earliest time computed
\* over its occurrences so far, and no merge step raises a stored time.
C9_EarliestTime == [](StoredIsEarliest) /\ [][StoredNeverRises]_vars

\* a title whose second occurrence is earlier than its first: the stored time
\* is the second one's
C9_Witness ==
    \E key \in Keys(title_map) :
        /\ Len(Rec(key).ranks) >= 2
        /\ computed[Rec(key).ranks[2]] < computed[Rec(key).ranks[1]]
        /\ Rec(key).publishTime = computed[Rec(key).ranks[2]]

FirstOccurrenceUrls ==
    \A key \in Keys(title_map) :
        LET first == items[Rec(key).ranks[1]].v IN
        /\ Rec(key).url = Get(first, "url", Str(<<>>))
        /\ Rec(key).mobileUrl = Get(first, "mobileUrl", Str(<<>>))

RepeatFrame ==
    \A key \in Keys(title_map) :
        /\ HasKey(title_map', key)
        /\ LET old == Rec(key)
               new == Get(title_map', key, None)
           IN /\ new.url = old.url
              /\ new.mobileUrl = old.mobileUrl
              /\ new.ranks = old.ranks \/ new.ranks = Append(old.ranks, index')
              /\ new.publishTime <= old.publishTime
              /\ new.ranks = old.ranks => new = old

\* C10: a record's url and mobileUrl are those of the title's first occurrence,
\* and a merge step changes an existing record at most by appending a rank and
\* lowering the stored time.
C10_UrlsFixedAtFirst == [](FirstOccurrenceUrls) /\ [][RepeatFrame]_vars

\* a repeat occurrence carrying another url and another mobileUrl than the record
C10_Witness ==
    \E key \in Keys(title_map) :
        /\ Len(Rec(key).ranks) >= 2
        /\ LET later == items[Rec(key).ranks[2]].v IN
           /\ Get(later, "url", Str(<<>>)) # Rec(key).url
           /\ Get(later, "mobileUrl", Str(<<>>)) # Rec(key).mobileUrl

StrictlyIncreasing(r) == \A n \in 1..(Len(r) - 1) : r[n] < r[n + 1]

\* C28: at every point of merging a fetch, each record's ranks are non-empty
\* and strictly increasing, so that the first rank is the least; the rank sets
\* of distinct titles are disjoint; and every rank lies between 1 and the
\* length of the fetch's item list.
C28_RanksWellFormed ==
    /\ \A key \in Keys(title_map) :
         LET r == Rec(key).ranks IN
         /\ r # <<>>
         /\ StrictlyIncreasing(r)
         /\ r[1] = SetMin(Range(r))
         /\ \A n \in 1..Len(r) : r[n] >= 1 /\ r[n] <= Len(items)
    /\ \A k1 \in Keys(title_map), k2 \in Keys(title_map) :
         k1 # k2 => Range(Rec(k1).ranks) \cap Range(Rec(k2).ranks) = {}

\* two titles merged, one of them twice around the other
C28_Witness ==
    /\ Cardinality(Keys(title_map)) = 2
    /\ \E k1 \in Keys(title_map), k2 \in Keys(title_map) :
         Rec(k1).ranks = <<1, 3>> /\ Rec(k2).ranks = <<2>>

\* the title of the item at position p, None when it has none
TitleAt(p) == Get(items[p].v, "title", None)

\* the ranks stored under any title
StoredRanks == UNION {Range(Rec(key).ranks) : key \in Keys(title_map)}

\* C29: every title key stored by the merger is a non-empty string without
\* leading or trailing whitespace, whatever the items were; an item whose
\* title is missing, null, a float or blank is skipped; and two items whose
\* titles differ only by surrounding whitespace are merged into one record.
C29_KeysTrimmed ==
    /\ \A key \in Keys(title_map) :
         key # <<>> /\ ~IsSpace(key[1]) /\ ~IsSpace(key[Len(key)])
    /\ \A p \in 1..index :
         (items[p].t = "dict" /\ ~Occurs(p)) => p \notin StoredRanks
    /\ \A p \in 1..index, q \in 1..index :
         (/\ Occurs(p) /\ Occurs(q)
          /\ \E t \in {<<"a">>, <<"b">>, <<"7">>} :
                IsTrimOf(t, PyStr(TitleAt(p))) /\ IsTrimOf(t, PyStr(TitleAt(q))))
            => \E key \in Keys(title_map) :
                 p \in Range(Rec(key).ranks) /\ q \in Range(Rec(key).ranks)

\* "a" and " a " merged into one record under "a", a blank title skipped
C29_Witness ==
    /\ index = 3
    /\ \A p \in 1..3 : items[p].t = "dict"
    /\ TitleAt(1) = Str(<<"a">>)
    /\ TitleAt(2) = Str(<<" ", "a", " ">>)
    /\ TitleAt(3) = Str(<<" ">>)
    /\ Keys(title_map) = {<<"a">>}
    /\ Rec(<<"a">>).ranks = <<1, 2>>

----------------------------------------------------------------------------
(* Claims about the standardizer (SpecStd) *)

\* no value: a key that is not there, or a lookup in what is no object
Missing == [t |-> "missing", v |-> <<>>]

\* obj[k], done by hand
Key(obj, k) ==
    IF obj.t = "dict" /\ (\E n \in 1..Len(obj.v) : obj.v[n][1] = k)
    THEN obj.v[CHOOSE n \in 1..Len(obj.v) : obj.v[n][1] = k][2]
    ELSE Missing

NotDot(c) == c # "."

\* the keys a dot-separated path names (the paths configured have one or two)
Segments(path) == SelectSeq(path.v, NotDot)

\* obj[k1] or obj[k1][k2], done by hand
ManualLookup(obj, path) ==
    IF Len(Segments(path)) = 1 THEN Key(obj, Segments(path)[1])
    ELSE Key(Key(obj, Segments(path)[1]), Segments(path)[2])

\* the mapping path is being taken: the raw items are located
Mapping == std_pc = "loop"

\* the configured paths

TitlePath == Key(Key(std_config, "field_mapping"), "title")

ItemIdPath == Key(Key(std_config, "field_mapping"), "itemId")

DataPath == Key(Key(std_config, "data_parsing"), "data_path")

\* the step consumes one raw item
MapsItem == std_pc = "loop" /\ std_index' = std_index + 1

RawItem == std_items[std_index + 1]

\* the step appends one item to the output / leaves the output alone
Keeps == Len(standardized_items') = Len(standardized_items) + 1
         /\ SubSeq(standardized_items', 1, Len(standardized_items)) = standardized_items

Kept == standardized_items'[Len(standardized_items')]

Drops == standardized_items' = standardized_items

\* C13 (as claimed): every item of the list the mapping path builds has a
\* title that is non-empty after trimming.
C13_TitlesNonEmpty ==
    \A n \in 1..Len(standardized_items) :
        LET title == Key(standardized_items[n], "title") IN
        title.t = "str" /\ ~Blank(title.v)

\* what bool() of a value found by hand is
Usable(val) == val # Missing /\ Truthy(val)

TitleExtraction ==
    MapsItem =>
        LET val == ManualLookup(RawItem, TitlePath) IN
        IF RawItem.t = "dict" /\ Usable(val)
        THEN /\ Keeps
             /\ Key(Kept, "title").t = "str"
             /\ IsTrimOf(Key(Kept, "title").v, PyStr(val))
             /\ val.t = "str" /\ Strip(val.v) = val.v => Key(Kept, "title") = val
        ELSE Drops

\* C14: each step of the mapping loop keeps the raw item exactly when the
\* title path, followed by hand key by key, reaches a value that counts as
\* true, and the title kept is that value as trimmed text (the value itself
\* when it is a text without surrounding blanks); an item on which a segment
\* is missing or runs into a value that is no object is dropped.
C14_NestedTitle == [][TitleExtraction]_vars

\* the six-item list mapped by the path a.b to its end: the one item whose
\* a.b is there is kept with that title, the item whose a is a text and the
\* item whose a has no b are dropped
C14_Witness ==
    /\ std_pc = "returned"
    /\ TitlePath = Str(<<"a", ".", "b">>)
    /\ Len(std_items) = 6
    /\ std_ret.t = "dict"
    /\ Len(Key(std_ret, "items").v) = 1
    /\ Key(Key(std_ret, "items").v[1], "title") = Str(<<"n">>)

\* an object with an items list whose elements all are objects with a title
Canonical(raw) ==
    /\ raw.t = "dict"
    /\ Key(raw, "items").t = "list"
    /\ \A n \in 1..Len(Key(raw, "items").v) :
         LET el == Key(raw, "items").v[n] IN
         el.t = "dict" /\ Key(el, "title") # Missing

\* C15: a response that is an object with an items list, empty or of objects
\* that all carry title, is returned with every field, items included,
\* unchanged, but for the id field, which is the platform id; whatever the
\* configuration.
C15_CanonicalUnchanged ==
    (std_pc = "returned" /\ Canonical(std_data)) =>
        /\ std_ret.t = "dict"
        /\ Keys(std_ret.v) = Keys(std_data.v) \cup {"id"}
        /\ Key(std_ret, "id") = Key(std_config, "id")
        /\ \A k \in Keys(std_data.v) \ {"id"} : Key(std_ret, k) = Key(std_data, k)
        /\ standardized_items = <<>>

\* a response of two titled items and another id, returned under a
\* configuration that has a data_path, a field_mapping and a url_builder
C15_Witness ==
    /\ std_pc = "returned"
    /\ Canonical(std_data)
    /\ Len(Key(std_data, "items").v) = 2
    /\ Key(std_data, "id") \notin {Missing, Key(std_config, "id")}
    /\ DataPath # Missing /\ TitlePath # Missing
    /\ Key(std_config, "url_builder") # Missing

\* C16 (as claimed): a response that is not canonical, standardized without a
\* field_mapping, gives an empty item list.
C16_NoMappingEmpty ==
    (std_pc = "returned" /\ ~Canonical(std_data)
        /\ Key(std_config, "field_mapping") = Missing) =>
        /\ std_ret.t = "dict"
        /\ Key(std_ret, "items") = List(<<>>)

\* s without its trailing slashes, and without its leading ones
TrimmedEnd(s) ==
    SubSeq(s, 1, CHOOSE n \in 0..Len(s) :
                     /\ n = 0 \/ s[n] # "/"
                     /\ \A m \in (n + 1)..Len(s) : s[m] = "/")

TrimmedStart(s) ==
    SubSeq(s, 1 + (CHOOSE n \in 0..Len(s) :
                       /\ n = Len(s) \/ s[n + 1] # "/"
                       /\ \A m \in 1..n : s[m] = "/"), Len(s))

\* the template with base put for {base_url} and id for {itemId}
RECURSIVE Fill(_, _, _)
Fill(template, base, id) ==
    IF template = <<>> THEN <<>>
    ELSE (CASE Head(template) = "{base_url}" -> base
            [] Head(template) = "{itemId}" -> id
            [] OTHER -> <<Head(template)>>) \o Fill(Tail(template), base, id)

BaseUrl == Key(Key(std_config, "url_builder"), "base_url")

Template ==
    IF Key(Key(std_config, "url_builder"), "template") = Missing
    THEN <<"{base_url}", "/", "{itemId}">>
    ELSE Key(Key(std_config, "url_builder"), "template").v

UrlBuilding ==
    (MapsItem /\ Keeps /\ ItemIdPath # Missing /\ Usable(BaseUrl)) =>
        LET item_id == ManualLookup(RawItem, ItemIdPath) IN
        Usable(item_id) =>
            Key(Kept, "url") = Str(Fill(Template, TrimmedEnd(BaseUrl.v),
                                        TrimmedStart(PyStr(item_id))))

\* data_path data.list, title t, itemId id, base https://x.com and template
\* {base_url}/post/{itemId}, on {data: {list: [{t: Hello, id: 42}]}}
ScenarioUrl ==
    /\ Key(std_config, "data_parsing")
         = Dict(<< <<"data_path", Str(<<"data", ".", "list">>)>> >>)
    /\ Key(std_config, "field_mapping")
         = Dict(<< <<"title", Str(<<"t">>)>>, <<"itemId", Str(<<"id">>)>> >>)
    /\ Key(std_config, "url_builder")
         = Dict(<< <<"base_url", Str(<<"https:", "/", "/", "x", ".", "com">>)>>,
                   <<"template", Str(<<"{base_url}", "/", "post", "/", "{itemId}">>)>> >>)
    /\ std_data = Dict(<< <<"data", Dict(<< <<"list", List(<<
            Dict(<< <<"t", Str(<<"Hello">>)>>, <<"id", Str(<<"42">>)>> >>) >>)>> >>)>> >>)

ScenarioUrlResult ==
    (std_pc = "returned" /\ ScenarioUrl) =>
        Key(std_ret, "items") =
            List(<<Dict(<< <<"title", Str(<<"Hello">>)>>,
                           <<"url", Str(<<"https:", "/", "/", "x", ".", "com", "/",
                                          "post", "/", "42">>)>> >>)>>)

\* C17: a kept item whose item-id path reaches a value that counts as true,
\* under a configured base_url, gets as url the template (default
\* {base_url}/{itemId}) with the base without its trailing slashes put for
\* {base_url} and the item-id without its leading slashes put for {itemId};
\* and the scenario returns exactly one item, of title Hello and url
\* https://x.com/post/42.
C17_UrlBuilt == [](ScenarioUrlResult) /\ [][UrlBuilding]_vars

\* the scenario, returned
C17_Witness == std_pc = "returned" /\ ScenarioUrl /\ std_index = 1

\* C20 (as claimed): the fallback is consulted only when it is enabled and
\* data_path is not configured or does not lead to a list; a list that
\* data_path leads to, empty or not, is the item source.
C20_FallbackOnlyUnresolved ==
    Mapping =>
        LET found == IF DataPath = Missing THEN Missing
                     ELSE ManualLookup(std_data, DataPath)
        IN /\ fallback_consulted =>
                /\ Key(Key(std_config, "data_parsing"), "fallback_enabled") # Bool(FALSE)
                /\ found.t # "list"
           /\ found.t = "list" => std_items = found.v

\* C21 (as claimed): a response is returned unchanged but for its id only if
\* it is an object whose items list is empty or holds only objects with a
\* title; any other response goes through the field mapping.
C21_FastPathOnlyCanonical ==
    (/\ std_pc = "returned"
     /\ std_data.t = "dict"
     /\ std_ret.t = "dict"
     /\ Keys(std_ret.v) = Keys(std_data.v) \cup {"id"}
     /\ \A k \in Keys(std_data.v) \ {"id"} : Key(std_ret, k) = Key(std_data, k))
        => Canonical(std_data)

\* the candidate keys, in order
Candidates ==
    IF Key(Key(std_config, "data_parsing"), "fallback_fields") = Missing
    THEN <<"data", "list", "items", "result">>
    ELSE Key(Key(std_config, "data_parsing"), "fallback_fields").v

\* the positions of the candidates under which the raw response holds a list
ListCandidates == {n \in 1..Len(Candidates) : Key(std_data, Candidates[n]).t = "list"}

\* C22: when the fallback runs, the item source is the raw response itself if
\* it is a list, else the list under the first candidate key, in the
\* configured order, that holds a list in the raw response (none: no items);
\* what the data_path ran into is not searched.
C22_FallbackSearchesRaw ==
    (Mapping /\ fallback_consulted) =>
        IF std_data.t = "list" THEN std_items = std_data.v
        ELSE IF ListCandidates = {} THEN std_items = <<>>
        ELSE std_items = Key(std_data, Candidates[SetMin(ListCandidates)]).v

\* a data_path that runs into an object holding a list under the candidate key
\* items: the fallback takes the raw response's list under result
C22_Witness ==
    /\ std_pc = "loop"
    /\ fallback_consulted
    /\ DataPath = Str(<<"data", ".", "list">>)
    /\ Key(Key(std_data, "data"), "items").t = "list"
    /\ Key(Key(std_data, "data"), "items").v # <<>>
    /\ std_items = Key(std_data, "result").v
    /\ std_items # Key(Key(std_data, "data"), "items").v

----------------------------------------------------------------------------
(* Claims about the snapshot writer (SpecSave) *)

\* the first rank of a record: ranks[0], 1 for a record without ranks
FirstRank(info) ==
    LET ranks == IF "ranks" \in DOMAIN info THEN info.ranks
                 ELSE IF info.t = "list" THEN info.v ELSE <<>>
    IN IF ranks = <<>> THEN 1 ELSE ranks[1]

FirstRanks(title_data) == [n \in 1..Len(title_data) |-> FirstRank(title_data[n][2])]

\* the order of writing: the positions of the result map's records by
\* ascending first rank, and by position among equal first ranks
WritingOrder(title_data) ==
    CHOOSE perm \in [1..Len(title_data) -> 1..Len(title_data)] :
        \A j \in 1..Len(title_data), k \in 1..Len(title_data) :
            j < k =>
                \/ FirstRank(title_data[perm[j]][2]) < FirstRank(title_data[perm[k]][2])
                \/ /\ FirstRank(title_data[perm[j]][2]) = FirstRank(title_data[perm[k]][2])
                   /\ perm[j] < perm[k]

\* the record of the section's n-th title line
Written(n) == snap_lines[Len(snap_lines) - snap_t + n]

\* C18: while the title lines of a section are written, the n-th line written
\* is the line of the record that is n-th by ascending first rank, records of
\* equal first rank taken in the order of the result map; first ranks 5, 1, 3
\* are written as 1, 3, 5.
C18_AscendingFirstRank ==
    snap_pc = "titles" =>
        LET title_data == snap_results[snap_p + 1][2]
            perm == WritingOrder(title_data)
        IN /\ Len(sorted_titles) = Len(title_data)
           /\ \A n \in 1..Len(title_data) :
                /\ sorted_titles[n].rank = FirstRank(title_data[perm[n]][2])
                /\ sorted_titles[n].cleaned_title = clean_title(title_data[perm[n]][1])
           /\ \A n \in 1..snap_t : Written(n) = title_line(sorted_titles[n])
           /\ FirstRanks(title_data) = <<5, 1, 3>> =>
                [n \in 1..3 |-> sorted_titles[n].rank] = <<1, 3, 5>>

\* a file written to its end with a section of first ranks 5, 1, 3 and a
\* section of first ranks 2, 2, 1, 1
C18_Witness ==
    /\ snap_pc = "closed"
    /\ Len(snap_results) = 2
    /\ FirstRanks(snap_results[1][2]) = <<5, 1, 3>>
    /\ FirstRanks(snap_results[2][2]) = <<2, 2, 1, 1>>
    /\ Len(snap_lines) >= 11

\* the lines of the platform sections: a header, the title lines and an empty
\* line each
RECURSIVE SectionLines(_)
SectionLines(res) ==
    IF res = <<>> THEN 0 ELSE 2 + Len(res[1][2]) + SectionLines(Tail(res))

\* C19: the file written holds the banner exactly when failed_ids is not
\* empty: then the banner is the first line after the platform sections and is
\* followed by one line per failed id, in the order of failed_ids, and nothing
\* else; without failures the file ends with the sections.  No line written
\* before is the banner.
C19_FailureBanner ==
    /\ snap_pc \notin {"closed", "idle"} =>
         \A m \in 1..Len(snap_lines) : snap_lines[m] # Banner
    /\ snap_pc = "closed" =>
         LET body == SectionLines(snap_results) IN
         /\ \A m \in 1..body : snap_lines[m] # Banner
         /\ IF snap_failed_ids # <<>>
            THEN /\ Len(snap_lines) = body + 1 + Len(snap_failed_ids)
                 /\ snap_lines[body + 1] = Banner
                 /\ \A k \in 1..Len(snap_failed_ids) :
                      snap_lines[body + 1 + k] = snap_failed_ids[k].v
            ELSE Len(snap_lines) = body

\* two sections written and two failed ids after the banner
C19_Witness ==
    /\ snap_pc = "closed"
    /\ Len(snap_results) = 2
    /\ snap_failed_ids = <<IdB, IdA>>
    /\ snap_lines[Len(snap_lines) - 2] = Banner

====
